---- MODULE Spec2Model ----
(***************************************************************************)
(* Model of the metaballs-2d simulation (src/src/App.tsx): the Space class *)
(* (interaction handlers, physics step, field rasterisation) and the       *)
(* marching-squares vertex shader.                                         *)
(*                                                                         *)
(* Numbers.  Positions, velocities and pointer coordinates are fixed-point *)
(* integers (one unit = one pixel); a product by 0.1 / 0.9 is rounded to   *)
(* the nearest unit, as the double arithmetic of the program rounds to the *)
(* nearest representable value.  Field samples are fixed-point integers    *)
(* with FieldScale units per 1.0, or Infinity; distances inside draw() have*)
(* DistScale units per pixel.  Points the shader emits are exact fractions.*)
(* Array indices keep the 0-based numbering of the source; sequences are   *)
(* 1-based, so element i of the source is element i + 1 of the sequence.   *)
(***************************************************************************)
EXTENDS Integers, Sequences, FiniteSets, TLC

VARIABLES
  screenWidth,           \* Space.screenWidth
  screenHeight,          \* Space.screenHeight
  metaballs,             \* Space.metaballs: sequence of [x, y, xvel, yvel, radius]
  clicking,              \* Space.clicking
  clickX,                \* Space.clickX
  clickY,                \* Space.clickY
  draggedMetaballIndex,  \* Space.draggedMetaballIndex (0-based, -1 = none)
  thrown,                \* TRUE iff the last call ended with an uncaught TypeError
  lastCall,              \* name of the last method of Space that was called
  steppedCount,          \* number of metaballs the last step() went over
  ticks,                 \* number of step() calls (frames) so far
  gridWidth,             \* Space.gridWidth
  gridHeight,            \* Space.gridHeight
  gridSpacing,           \* the gridSpacing the host passes to the constructor and to draw()
  isoLevel,              \* Space.isoLevel / the isoLevel uniform (fixed-point)
  data,                  \* Space.data, uploaded to the texture: index -> field sample
  pc,                    \* "ready" | "vertex" (drawArrays issued) | "done"
  output                 \* outputs of the vertex shader, by gl_VertexID

physVars == <<metaballs, clicking, clickX, clickY, draggedMetaballIndex,
              thrown, lastCall, steppedCount, ticks>>
drawVars == <<gridWidth, gridHeight, gridSpacing, isoLevel, data, pc, output>>
confVars == <<screenWidth, screenHeight>>
vars == <<confVars, physVars, drawVars, confVars>>

\* ------------------------------------------------------------------ bounds
MaxBalls == 2
MaxTicks == 3
FieldScale == 1000
DistScale == 100
MeshGridHeight == 3

\* --------------------------------------------------------------- constants
clickRadius == 200

\* canvas size and grid spacing the host constructs the Space with
CanvasWidth == 500
CanvasHeight == 300
CanvasGridSpacing == 100

\* Arguments the host passes to addMetaball (x, y, xvel, yvel, radius).
AddInputs ==
  { [x |-> 100, y |-> 100, xvel |-> 30,  yvel |-> -20, radius |-> 50],
    [x |-> 448, y |-> 150, xvel |-> 0,   yvel |-> 0,   radius |-> 50],
    [x |-> 250, y |-> 150, xvel |-> 0,   yvel |-> 25,  radius |-> 200] }

\* Pointer positions the host passes to onClick / onMove.
PointerInputs ==
  { <<100, 100>>, <<520, 150>> }

\* ----------------------------------------------------------------- helpers
\* a / b rounded to the nearest integer (b > 0)
RoundDiv(a, b) == (2 * a + b) \div (2 * b)

Abs(a) == IF a < 0 THEN -a ELSE a

\* Math.pow(metaball.x - x, 2) + Math.pow(metaball.y - y, 2): the square of
\* the distance of line 269.  Math.sqrt is strictly increasing on these
\* integers, so distances are compared through their squares.
DistanceSq(ball, x, y) ==
  (ball.x - x) * (ball.x - x) + (ball.y - y) * (ball.y - y)

\* metaballsWithDistances[0].index after the stable sort of line 280: the
\* lowest index among the metaballs at minimal distance.
NearestIndex(balls, x, y) ==
  CHOOSE i \in 0..(Len(balls) - 1) :
    /\ \A j \in 0..(Len(balls) - 1) :
         DistanceSq(balls[i + 1], x, y) <= DistanceSq(balls[j + 1], x, y)
    /\ \A j \in 0..(i - 1) :
         DistanceSq(balls[j + 1], x, y) > DistanceSq(balls[i + 1], x, y)

\* Blend with the weights 0.2 / 0.8 instead of 0.1 / 0.9
BlendWrongWeights(click, pos) == RoundDiv(2 * click + 8 * pos, 10)

\* 0.1 * click + 0.9 * pos  (lines 318-319)
Blend(click, pos) == RoundDiv(click + 9 * pos, 10)

\* lines 317-329: drag blend or free integration of one ball
MoveBall(ball, dragged, cx, cy) ==
  IF dragged
  THEN LET newX == Blend(cx, ball.x)
           newY == Blend(cy, ball.y)
       IN  [ball EXCEPT !.xvel = newX - ball.x, !.yvel = newY - ball.y,
                        !.x = newX, !.y = newY]
  ELSE [ball EXCEPT !.x = ball.x + ball.xvel, !.y = ball.y + ball.yvel]

\* lines 331-346: the four reflections, applied in the order of the source
ReflectLowX(b) ==
  IF b.x < b.radius THEN [b EXCEPT !.x = b.radius, !.xvel = -b.xvel] ELSE b
ReflectLowY(b) ==
  IF b.y < b.radius THEN [b EXCEPT !.y = b.radius, !.yvel = -b.yvel] ELSE b
\* ReflectHighX that negates the velocity but forgets to clamp the position
ReflectHighXNoClamp(b) ==
  IF b.x > screenWidth - b.radius THEN [b EXCEPT !.xvel = -b.xvel] ELSE b

ReflectHighX(b) ==
  IF b.x > screenWidth - b.radius
  THEN [b EXCEPT !.x = screenWidth - b.radius, !.xvel = -b.xvel] ELSE b
ReflectHighY(b) ==
  IF b.y > screenHeight - b.radius
  THEN [b EXCEPT !.y = screenHeight - b.radius, !.yvel = -b.yvel] ELSE b

Reflect(b) == ReflectHighY(ReflectHighX(ReflectLowY(ReflectLowX(b))))

\* one iteration of the loop of step()
StepBall(ball, i, draggedIndex, cx, cy) ==
  Reflect(MoveBall(ball, draggedIndex = i, cx, cy))


\* ------------------------------------------------------- field rasterisation
\* a field sample: a fixed-point number or +Infinity
Finite(v) == [inf |-> FALSE, v |-> v]
Infinity == [inf |-> TRUE, v |-> 0]

\* a + b on field samples
FieldAdd(a, b) == IF a.inf \/ b.inf THEN Infinity ELSE Finite(a.v + b.v)

\* largest m in lo..hi with m * m <= n  (lo * lo <= n)
RECURSIVE SqrtFloor(_, _, _)
SqrtFloor(n, lo, hi) ==
  IF lo >= hi THEN lo
  ELSE LET mid == (lo + hi + 1) \div 2
       IN  IF mid * mid <= n THEN SqrtFloor(n, mid, hi)
                             ELSE SqrtFloor(n, lo, mid - 1)

\* Math.sqrt(n) rounded to the nearest integer
Sqrt(n) ==
  LET m == SqrtFloor(n, 0, IF n < 46340 THEN n ELSE 46340)
  IN  IF n - m * m > m THEN m + 1 ELSE m

\* lines 359-371: the contribution of one metaball to the sample at
\* (xpos, ypos).  dist has DistScale units per pixel.  With dist = 0 the
\* quotient r / dist of line 370 is +Infinity and so is the contribution.
Contribution(ball, xpos, ypos) ==
  LET dist == Sqrt(((xpos - ball.x) * (xpos - ball.x)
                    + (ypos - ball.y) * (ypos - ball.y)) * DistScale * DistScale)
      r == ball.radius
      l == 3 * r
  IN  IF dist < l * DistScale
      THEN IF dist = 0
           THEN Infinity
           ELSE Finite(RoundDiv(r * DistScale * FieldScale, dist)
                       - RoundDiv(r * (dist - l * DistScale) * FieldScale,
                                  l * (l - r) * DistScale)
                       - RoundDiv(r * FieldScale, l))
      ELSE Finite(0)

\* lines 356-372: the sum over metaballs 0 .. n - 1
RECURSIVE FieldSum(_, _, _, _)
FieldSum(balls, n, xpos, ypos) ==
  IF n = 0 THEN Finite(0)
  ELSE FieldAdd(FieldSum(balls, n - 1, xpos, ypos),
                Contribution(balls[n], xpos, ypos))

\* lines 352-376: data[y * gridWidth + x] = sum, for every grid point
Rasterize(balls, gw, gh, spacing) ==
  [idx \in 0..(gw * gh - 1) |->
     FieldSum(balls, Len(balls), (idx % gw) * spacing, (idx \div gw) * spacing)]

\* ------------------------------------------------------------ vertex shader
\* the table with the second segment of the saddle row 5 left out
marchingSquaresTableNoSaddle ==
  << -1, -1, -1, -1,
      0,  1, -1, -1,
      0,  3, -1, -1,
      1,  3, -1, -1,
      2,  3, -1, -1,
      0,  3, -1, -1,
      0,  2, -1, -1,
      1,  2, -1, -1,
      1,  2, -1, -1,
      0,  2, -1, -1,
      0,  1,  2,  3,
      2,  3, -1, -1,
      1,  3, -1, -1,
      0,  3, -1, -1,
      0,  1, -1, -1,
     -1, -1, -1, -1 >>

marchingSquaresTable ==
  << -1, -1, -1, -1,
      0,  1, -1, -1,
      0,  3, -1, -1,
      1,  3, -1, -1,
      2,  3, -1, -1,
      0,  3,  1,  2,
      0,  2, -1, -1,
      1,  2, -1, -1,
      1,  2, -1, -1,
      0,  2, -1, -1,
      0,  1,  2,  3,
      2,  3, -1, -1,
      1,  3, -1, -1,
      0,  3, -1, -1,
      0,  1, -1, -1,
     -1, -1, -1, -1 >>

edgeCornersA == << 0, 3, 2, 1 >>

\* edgeCornersB whose last entry names the corner diagonal to edgeCornersA's
edgeCornersBDiagonal == << 1, 0, 3, 3 >>

edgeCornersB == << 1, 0, 3, 2 >>

RECURSIVE GCD(_, _)
GCD(a, b) == IF b = 0 THEN a ELSE GCD(b, a % b)

\* the fraction n / d (d # 0) in lowest terms with a positive denominator
Frac(n, d) ==
  LET g == GCD(Abs(n), Abs(d))
      sgn == IF d < 0 THEN -1 ELSE 1
  IN  [n |-> sgn * (n \div g), d |-> sgn * (d \div g)]

\* a point with fractional coordinates x, y
Point(x, y) == [finite |-> TRUE, x |-> x, y |-> y]

\* a position with a NaN or infinite coordinate, or a gl_Position that was
\* never written
NoPoint == [finite |-> FALSE, x |-> Frac(0, 1), y |-> Frac(0, 1)]

\* lines 125-130
toNDC(x, y, gw, gh) ==
  Point(Frac(2 * x - (gw - 1), gw - 1), Frac(2 * y - (gh - 1), gh - 1))

\* corners[k].z > isoLevel
Above(z, iso) == z.inf \/ z.v > iso

\* lines 138-150: the corners of the cell of work item id; xy is the NDC
\* position, z the texel at (gridx + dx, gridy + dy)
Corners(id, gw, gh, tex) ==
  LET cell == id \div 4
      gridx == cell \div (gh - 1)
      gridy == cell % (gh - 1)
      corner(dx, dy) == [xy |-> toNDC(gridx + dx, gridy + dy, gw, gh),
                         z |-> tex[(gridy + dy) * gw + (gridx + dx)]]
  IN  << corner(0, 0), corner(1, 0), corner(1, 1), corner(0, 1) >>

\* lines 152-156
SquareIndex(corners, iso) ==
  (IF Above(corners[1].z, iso) THEN 1 ELSE 0)
  + (IF Above(corners[2].z, iso) THEN 2 ELSE 0)
  + (IF Above(corners[3].z, iso) THEN 4 ELSE 0)
  + (IF Above(corners[4].z, iso) THEN 8 ELSE 0)

\* line 158, with edgeId = (id % 4) / 2 and cornerId = id % 2
EdgeIndex(id, squareIndex) ==
  marchingSquaresTable[4 * squareIndex + 2 * ((id % 4) \div 2) + (id % 2) + 1]

\* a + (tn / td) * (b - a) for fractions a, b
Lerp(a, b, tn, td) ==
  Frac(a.n * b.d * td + tn * (b.n * a.d - a.n * b.d), a.d * b.d * td)

\* lines 132-135: the positions vertexInterp can return.
\*  - both samples finite and different: the exact interpolated point;
\*  - both finite and equal: t is a quotient by zero, the point is not finite;
\*  - v2 infinite, v1 finite: t = finite / Infinity = 0, the point is v1.xy;
\*  - v1 infinite: t = -Infinity / -Infinity is NaN where NaN is generated;
\*    GLSL ES does not require NaN to be generated, the result is then an
\*    unspecified value (here: one of the two corners).
vertexInterp(v1, v2, iso) ==
  IF v1.z.inf
  THEN {NoPoint, v1.xy, v2.xy}
  ELSE IF v2.z.inf
  THEN {v1.xy}
  ELSE IF v2.z.v = v1.z.v
  THEN {NoPoint}
  ELSE {Point(Lerp(v1.xy.x, v2.xy.x, iso - v1.z.v, v2.z.v - v1.z.v),
              Lerp(v1.xy.y, v2.xy.y, iso - v1.z.v, v2.z.v - v1.z.v))}

\* lines 137-169: the outputs (render, gl_Position) main can produce for
\* gl_VertexID = id
VertexMain(id, gw, gh, tex, iso) ==
  LET corners == Corners(id, gw, gh, tex)
      edgeIndex == EdgeIndex(id, SquareIndex(corners, iso))
  IN  IF edgeIndex = -1
      THEN {[render |-> 0, pos |-> NoPoint]}
      ELSE {[render |-> 1, pos |-> p] :
              p \in vertexInterp(corners[edgeCornersA[edgeIndex + 1] + 1],
                                 corners[edgeCornersB[edgeIndex + 1] + 1], iso)}

\* number of vertices of the drawArrays call (line 410)
VertexCount(gw, gh) == 4 * (gw - 1) * (gh - 1)

\* the state of a Space after its constructor (lines 220-238) and one
\* addMetaball call per element of balls
SpaceState(w, h, spacing, balls) ==
  /\ screenWidth = w
  /\ screenHeight = h
  /\ metaballs = balls
  /\ clicking = FALSE
  /\ clickX = 0
  /\ clickY = 0
  /\ draggedMetaballIndex = -1
  /\ gridSpacing = spacing
  /\ gridWidth = (w \div spacing) + 1
  /\ gridHeight = (h \div spacing) + 1
  /\ isoLevel = 1 * FieldScale
  /\ data = [idx \in 0..(((w \div spacing) + 1) * ((h \div spacing) + 1) - 1) |->
               Finite(0)]
  /\ pc = "ready"
  /\ output = << >>

\* ----------------------------------------------------------------- actions
Init ==
  /\ SpaceState(CanvasWidth, CanvasHeight, CanvasGridSpacing, << >>)
  /\ thrown = FALSE
  /\ lastCall = "constructor"
  /\ steppedCount = 0
  /\ ticks = 0

addMetaball(b) ==
  /\ Len(metaballs) < MaxBalls
  /\ metaballs' = Append(metaballs, b)
  /\ thrown' = FALSE
  /\ lastCall' = "addMetaball"
  /\ UNCHANGED <<clicking, clickX, clickY, draggedMetaballIndex, steppedCount,
                 ticks, drawVars, confVars>>

\* onClick: with no metaball, metaballsWithDistances[0] is undefined and
\* line 282 throws a TypeError after lines 264-266 have run.
onClick(x, y) ==
  /\ clicking' = TRUE
  /\ clickX' = x
  /\ clickY' = y
  /\ IF Len(metaballs) = 0
     THEN /\ thrown' = TRUE
          /\ UNCHANGED draggedMetaballIndex
     ELSE /\ thrown' = FALSE
          /\ LET n == NearestIndex(metaballs, x, y)
             IN  IF DistanceSq(metaballs[n + 1], x, y) < clickRadius * clickRadius
                 THEN draggedMetaballIndex' = n
                 ELSE UNCHANGED draggedMetaballIndex
  /\ lastCall' = "onClick"
  /\ UNCHANGED <<metaballs, steppedCount, ticks, drawVars, confVars>>

onMove(x, y) ==
  /\ clickX' = x
  /\ clickY' = y
  /\ thrown' = FALSE
  /\ lastCall' = "onMove"
  /\ UNCHANGED <<metaballs, clicking, draggedMetaballIndex, steppedCount, ticks,
                 drawVars, confVars>>

\* onRelease that also stops the metaball it releases
onReleaseStopsBall ==
  /\ clicking' = FALSE
  /\ draggedMetaballIndex' = -1
  /\ metaballs' = [k \in 1..Len(metaballs) |->
                     IF k - 1 = draggedMetaballIndex
                     THEN [metaballs[k] EXCEPT !.xvel = 0, !.yvel = 0]
                     ELSE metaballs[k]]
  /\ thrown' = FALSE
  /\ lastCall' = "onRelease"
  /\ UNCHANGED <<clickX, clickY, steppedCount, ticks, drawVars, confVars>>

\* onRelease that clears the clicking flag but keeps the dragged index
onReleaseKeepsIndex ==
  /\ clicking' = FALSE
  /\ thrown' = FALSE
  /\ lastCall' = "onRelease"
  /\ UNCHANGED <<metaballs, clickX, clickY, draggedMetaballIndex,
                 steppedCount, ticks, drawVars, confVars>>

onRelease ==
  /\ clicking' = FALSE
  /\ draggedMetaballIndex' = -1
  /\ thrown' = FALSE
  /\ lastCall' = "onRelease"
  /\ UNCHANGED <<metaballs, clickX, clickY, steppedCount, ticks, drawVars, confVars>>

step ==
  /\ ticks < MaxTicks
  /\ ticks' = ticks + 1
  /\ metaballs' = [k \in 1..Len(metaballs) |->
                     StepBall(metaballs[k], k - 1, draggedMetaballIndex,
                              clickX, clickY)]
  /\ steppedCount' = Len(metaballs)
  /\ thrown' = FALSE
  /\ lastCall' = "step"
  /\ UNCHANGED <<clicking, clickX, clickY, draggedMetaballIndex, drawVars, confVars>>

AddAny == \E b \in AddInputs : addMetaball(b)
ClickAny == \E p \in PointerInputs : onClick(p[1], p[2])
MoveAny == \E p \in PointerInputs : onMove(p[1], p[2])

Next == AddAny \/ ClickAny \/ MoveAny \/ onRelease \/ step

Spec == Init /\ [][Next]_vars

\* -------------------------------------------------------------- rendering
\* draw(): rasterise the field into data, upload it and issue drawArrays
draw ==
  /\ pc = "ready"
  /\ data' = Rasterize(metaballs, gridWidth, gridHeight, gridSpacing)
  /\ output' = << >>
  /\ pc' = "vertex"
  /\ thrown' = FALSE
  /\ lastCall' = "draw"
  /\ UNCHANGED <<metaballs, clicking, clickX, clickY, draggedMetaballIndex,
                 steppedCount, ticks, gridWidth, gridHeight, gridSpacing,
                 isoLevel, confVars>>

\* one invocation of the vertex shader, for gl_VertexID = Len(output)
vertexShader ==
  /\ pc = "vertex"
  /\ Len(output) < VertexCount(gridWidth, gridHeight)
  /\ \E o \in VertexMain(Len(output), gridWidth, gridHeight, data, isoLevel) :
       output' = Append(output, o)
  /\ pc' = IF Len(output) + 1 = VertexCount(gridWidth, gridHeight)
           THEN "done" ELSE "vertex"
  /\ UNCHANGED <<physVars, gridWidth, gridHeight, gridSpacing, isoLevel, data,
                 confVars>>

\* Spaces the field is drawn of: screen size, grid spacing and metaballs
DrawScenarios ==
  { [w |-> 100, h |-> 100, spacing |-> 10,
     balls |-> << [x |-> 50, y |-> 50, xvel |-> 0, yvel |-> 0, radius |-> 10] >>],
    [w |-> 40, h |-> 20, spacing |-> 10,
     balls |-> << [x |-> 17, y |-> 8, xvel |-> 1, yvel |-> 1, radius |-> 6],
                  [x |-> 25, y |-> 12, xvel |-> 0, yvel |-> -1, radius |-> 5] >>],
    [w |-> 30, h |-> 30, spacing |-> 10,
     balls |-> << [x |-> 14, y |-> 16, xvel |-> 0, yvel |-> 0, radius |-> 12] >>] }

InitDraw ==
  /\ \E sc \in DrawScenarios : SpaceState(sc.w, sc.h, sc.spacing, sc.balls)
  /\ thrown = FALSE
  /\ lastCall = "addMetaball"
  /\ steppedCount = 0
  /\ ticks = 0

NextDraw == draw \/ vertexShader

SpecDraw == InitDraw /\ [][NextDraw]_vars

\* the mesher on its own: every grid of two columns and MeshGridHeight rows
\* of samples over MeshSamples
MeshSamples == { Finite(0), Finite(FieldScale), Finite(2 * FieldScale) }
MeshIsoLevels == { FieldScale, FieldScale \div 2 }

InitMesh ==
  /\ screenWidth = 0
  /\ screenHeight = 0
  /\ metaballs = << >>
  /\ clicking = FALSE
  /\ clickX = 0
  /\ clickY = 0
  /\ draggedMetaballIndex = -1
  /\ thrown = FALSE
  /\ lastCall = "draw"
  /\ steppedCount = 0
  /\ ticks = 0
  /\ gridSpacing = 1
  /\ gridWidth = 2
  /\ gridHeight = MeshGridHeight
  /\ isoLevel \in MeshIsoLevels
  /\ data \in [0..(2 * MeshGridHeight - 1) -> MeshSamples]
  /\ pc = "vertex"
  /\ output = << >>

NextMesh == vertexShader

SpecMesh == InitMesh /\ [][NextMesh]_vars

\* =================================================================== claims
\* ball b lies in [radius, screenWidth - radius] x [radius, screenHeight - radius]
InBox(b) ==
  /\ b.radius <= b.x /\ b.x <= screenWidth - b.radius
  /\ b.radius <= b.y /\ b.y <= screenHeight - b.radius

\* the box of a ball of radius r is not empty
Fits(r) == 2 * r <= screenWidth /\ 2 * r <= screenHeight

\* point (x, y) lies in the box of a ball of radius r
PointInBox(x, y, r) ==
  /\ r <= x /\ x <= screenWidth - r
  /\ r <= y /\ y <= screenHeight - r

Dragging == draggedMetaballIndex \in 0..(Len(metaballs) - 1)

\* C1 as stated: every metaball with radius > 0 that step() has gone over lies
\* in [radius, screenWidth - radius] x [radius, screenHeight - radius].
C1_BoundaryAnyRadius ==
  \A k \in 1..steppedCount :
    metaballs[k].radius > 0 => InBox(metaballs[k])

\* C1 amended: every metaball with radius > 0, 2 * radius <= screenWidth and
\* 2 * radius <= screenHeight that step() has gone over lies in
\* [radius, screenWidth - radius] x [radius, screenHeight - radius], whatever
\* onClick / onMove / onRelease calls were interleaved.
C1_BoundaryInvariant ==
  \A k \in 1..steppedCount :
    (metaballs[k].radius > 0 /\ Fits(metaballs[k].radius)) => InBox(metaballs[k])

\* a dragged ball that step() has just clamped to a wall
C1_Witness ==
  /\ lastCall = "step"
  /\ Dragging
  /\ LET b == metaballs[draggedMetaballIndex + 1]
     IN  /\ Fits(b.radius)
         /\ \/ b.x = screenWidth - b.radius
            \/ b.x = b.radius
            \/ b.y = screenHeight - b.radius
            \/ b.y = b.radius

\* C2 as stated: after onPress(x, y) the clicking flag is set; if the nearest
\* metaball is closer than clickRadius the dragged index is its index,
\* otherwise the dragged index is -1.
C2_PickNearestOrNone ==
  lastCall = "onClick" =>
    /\ clicking
    /\ IF /\ Len(metaballs) > 0
          /\ DistanceSq(metaballs[NearestIndex(metaballs, clickX, clickY) + 1],
                        clickX, clickY) < clickRadius * clickRadius
       THEN draggedMetaballIndex = NearestIndex(metaballs, clickX, clickY)
       ELSE draggedMetaballIndex = -1

\* C3 as stated: onPress with zero metaballs completes without an exception
\* and leaves the dragged index at -1.
C3_PressOnEmptyIsNoError ==
  (lastCall = "onClick" /\ Len(metaballs) = 0) =>
    (~thrown /\ draggedMetaballIndex = -1)

\* |10 * (new - p) - 9 * (old - p)| <= 5: the distance to p was multiplied by
\* 0.9, up to the rounding of the result to the nearest unit
Contracted(old, new, p) == Abs(10 * (new - p) - 9 * (old - p)) <= 5

\* C4 as stated: for every pointer position, also one closer than radius to
\* a wall or outside the screen, a step() multiplies the dragged ball's
\* distance to the pointer by 0.9 on each axis (stated for a ball that lies
\* inside its box before the step).
C4_DragContractsAnyPointer ==
  [][(/\ lastCall' = "step"
      /\ Dragging
      /\ InBox(metaballs[draggedMetaballIndex + 1])) =>
       LET old == metaballs[draggedMetaballIndex + 1]
           new == metaballs'[draggedMetaballIndex + 1]
       IN  /\ Contracted(old.x, new.x, clickX)
           /\ Contracted(old.y, new.y, clickY)]_vars

\* C4 amended: when the pointer and the dragged ball both lie in
\* [radius, screenWidth - radius] x [radius, screenHeight - radius], a step()
\* multiplies the ball's distance to the pointer by 0.9 on each axis (up to
\* rounding) and sets the velocity to the displacement.
C4_DragContractsInBox ==
  [][(/\ lastCall' = "step"
      /\ Dragging
      /\ InBox(metaballs[draggedMetaballIndex + 1])
      /\ PointInBox(clickX, clickY, metaballs[draggedMetaballIndex + 1].radius)) =>
       LET old == metaballs[draggedMetaballIndex + 1]
           new == metaballs'[draggedMetaballIndex + 1]
       IN  /\ Contracted(old.x, new.x, clickX)
           /\ Contracted(old.y, new.y, clickY)
           /\ new.xvel = new.x - old.x
           /\ new.yvel = new.y - old.y]_vars

\* a ball inside its box that a second step() has pulled towards a pointer
\* inside the box
C4_Witness ==
  /\ lastCall = "step"
  /\ ticks >= 2
  /\ Dragging
  /\ LET b == metaballs[draggedMetaballIndex + 1]
     IN  /\ Fits(b.radius)
         /\ PointInBox(clickX, clickY, b.radius)
         /\ b.x # clickX
         /\ b.xvel # 0
         /\ b.yvel # 0

\* C8: onMove changes only the pointer position; onRelease changes only the
\* clicking flag and the dragged index; neither changes any metaball.
C8_HandlersLeaveBalls ==
  [][/\ lastCall' = "onMove" =>
          /\ metaballs' = metaballs
          /\ clicking' = clicking
          /\ draggedMetaballIndex' = draggedMetaballIndex
     /\ lastCall' = "onRelease" =>
          /\ metaballs' = metaballs
          /\ clickX' = clickX
          /\ clickY' = clickY]_vars

\* a release after a step, with a stepped metaball that is still moving
C8_Witness ==
  /\ lastCall = "onRelease"
  /\ ticks >= 1
  /\ ~clicking
  /\ \E k \in 1..steppedCount : metaballs[k].xvel # 0

\* C10: the dragged index is -1 or the index of an existing metaball, and it
\* is -1 whenever the clicking flag is false.
C10_DraggedIndexValid ==
  \/ draggedMetaballIndex = -1
  \/ (Dragging /\ clicking)

\* a step() with two metaballs, the second of which is dragged
C10_Witness ==
  /\ lastCall = "step"
  /\ Len(metaballs) = 2
  /\ draggedMetaballIndex = 1
  /\ clicking

\* ------------------------------------------------------ claims on rendering
\* work item id (0-based) has been processed and is rendered
Rendered(id) == id < Len(output) /\ output[id + 1].render = 1

CellCount == (gridWidth - 1) * (gridHeight - 1)

\* the signature of a cell, from the samples
CellSignature(cell) ==
  SquareIndex(Corners(4 * cell, gridWidth, gridHeight, data), isoLevel)

\* number of edge slots of a cell whose two work items are both rendered
SegmentsEmitted(cell) ==
  Cardinality({s \in 0..1 : Rendered(4 * cell + 2 * s)
                            /\ Rendered(4 * cell + 2 * s + 1)})

\* number of endpoint pairs of a table row without a -1
TablePairs(sq) ==
  Cardinality({s \in 0..1 : /\ marchingSquaresTable[4 * sq + 2 * s + 1] # -1
                            /\ marchingSquaresTable[4 * sq + 2 * s + 2] # -1})

\* C5: for every cell whose four work items have run, the number of slots
\* with both endpoints rendered equals the number of non-(-1) pairs of the
\* row of the cell's signature: 0 for signatures 0 and 15, 2 for the saddles
\* 5 and 10, 1 otherwise; no slot has one rendered and one suppressed endpoint.
C5_CaseTableComplete ==
  \A cell \in 0..(CellCount - 1) :
    Len(output) >= 4 * (cell + 1) =>
      LET sq == CellSignature(cell)
      IN  /\ SegmentsEmitted(cell) = TablePairs(sq)
          /\ SegmentsEmitted(cell) =
               (IF sq \in {0, 15} THEN 0 ELSE IF sq \in {5, 10} THEN 2 ELSE 1)
          /\ \A s \in 0..1 :
               Rendered(4 * cell + 2 * s) <=> Rendered(4 * cell + 2 * s + 1)

\* a saddle cell (signature 5) whose four work items have run
C5_Witness ==
  \E cell \in 0..(CellCount - 1) :
    /\ Len(output) >= 4 * (cell + 1)
    /\ CellSignature(cell) = 5
    /\ SegmentsEmitted(cell) = 2

\* C6 as stated: after draw() every sample of the grid buffer is finite.
C6_SamplesFinite ==
  pc # "ready" => \A idx \in DOMAIN data : ~data[idx].inf

\* fractions: a <= b
FracLeq(a, b) == a.n * b.d <= b.n * a.d

\* fraction c lies between a and b
FracBetween(c, a, b) ==
  \/ FracLeq(a, c) /\ FracLeq(c, b)
  \/ FracLeq(b, c) /\ FracLeq(c, a)

InNDC(c) == FracLeq(Frac(-1, 1), c) /\ FracLeq(c, Frac(1, 1))

\* C9: for every rendered work item the two corners of the selected edge lie
\* on opposite sides of the threshold, the samples differ, 0 <= t <= 1, and
\* the emitted point is finite, between the two corners and inside
\* [-1, 1] x [-1, 1].
C9_PointOnEdge ==
  \A id \in 0..(Len(output) - 1) :
    Rendered(id) =>
      LET corners == Corners(id, gridWidth, gridHeight, data)
          e == EdgeIndex(id, SquareIndex(corners, isoLevel))
          v1 == corners[edgeCornersA[e + 1] + 1]
          v2 == corners[edgeCornersB[e + 1] + 1]
          tn == isoLevel - v1.z.v
          td == v2.z.v - v1.z.v
          p == output[id + 1].pos
      IN  /\ Above(v1.z, isoLevel) # Above(v2.z, isoLevel)
          /\ td # 0
          /\ tn * td >= 0 /\ Abs(tn) <= Abs(td)
          /\ p.finite
          /\ FracBetween(p.x, v1.xy.x, v2.xy.x)
          /\ FracBetween(p.y, v1.xy.y, v2.xy.y)
          /\ InNDC(p.x) /\ InNDC(p.y)

\* a rendered work item whose point lies strictly inside its edge
C9_Witness ==
  \E id \in 0..(Len(output) - 1) :
    /\ Rendered(id)
    /\ LET corners == Corners(id, gridWidth, gridHeight, data)
           p == output[id + 1].pos
       IN  /\ p.finite
           /\ \A k \in 1..4 : p # corners[k].xy

\* the slots (0-based pairs of work items) that emit a segment
Segments ==
  {k \in 0..((Len(output) \div 2) - 1) : Rendered(2 * k) /\ Rendered(2 * k + 1)}

\* endpoint e (1 or 2) of segment k
EndPos(k, e) == output[2 * k + e].pos

\* segments k and j share an endpoint
Adjacent(k, j) ==
  \E e1 \in 1..2 : \E e2 \in 1..2 :
    EndPos(k, e1).finite /\ EndPos(k, e1) = EndPos(j, e2)

\* the segments reachable from set through shared endpoints
RECURSIVE Reach(_)
Reach(set) ==
  LET more == set \cup {j \in Segments : \E k \in set : Adjacent(k, j)}
  IN  IF more = set THEN set ELSE Reach(more)

\* every endpoint is finite and coincides with exactly one endpoint of one
\* other segment, and the segments are connected: one closed loop
SingleClosedLoop ==
  /\ Segments # {}
  /\ \A k \in Segments : \A e \in 1..2 :
       /\ EndPos(k, e).finite
       /\ Cardinality({<<j, f>> \in (Segments \ {k}) \X (1..2) :
                         EndPos(j, f) = EndPos(k, e)}) = 1
  /\ Reach({CHOOSE k \in Segments : TRUE}) = Segments

\* the Space of the end-to-end scenario: one metaball of radius 10 at
\* (50, 50), screen 100 x 100, grid spacing 10
EndToEndScenario ==
  /\ screenWidth = 100 /\ screenHeight = 100 /\ gridSpacing = 10
  /\ gridWidth = 11 /\ gridHeight = 11
  /\ Len(metaballs) = 1
  /\ metaballs[1].x = 50 /\ metaballs[1].y = 50 /\ metaballs[1].radius = 10

\* C7 as stated: in the end-to-end scenario the segments emitted over all
\* work items form a single closed loop.
C7_ClosedContour ==
  (EndToEndScenario /\ pc = "done") => SingleClosedLoop

====
